---- MODULE Spec2Model ----
(***************************************************************************)
(* Webhook listener of skills/activepieces-orchestrator/scripts/           *)
(* webhook-server.py: one POST request is read, normalised into            *)
(* (action, message, data), logged, dispatched to one action handler and   *)
(* answered.  Text is a sequence of one-character strings, a JSON value is *)
(* a tagged record, and a Python dict is a record over the keys the        *)
(* program reads, with Absent for a key that is not in the dict.           *)
(***************************************************************************)
EXTENDS Integers, Sequences, FiniteSets, TLC

\* Longest generated text (request texts and JSON string values).
MaxTextLen == 2
\* Most keys present in one JSON object of a request body.
MaxKeys == 2
\* connections made to the listener
MaxConns == 3
\* bytes in an image file
MaxSize == 2
\* characters in the recipient argument of send
MaxRecipientLen == 2

\* Characters of generated texts: a letter, two whitespace characters and
\* the double quote that action_notify and action_say replace.
Chars == {"a", " ", "\"", "\n"}
Whitespace == {" ", "\n", "\t", "\r"}

Texts == UNION {[1..n -> Chars] : n \in 0..MaxTextLen}

(* ---- string constants of the program ---- *)
S_notify == <<"n", "o", "t", "i", "f", "y">>
S_notification == <<"n", "o", "t", "i", "f", "i", "c", "a", "t", "i", "o", "n">>
S_sound == <<"s", "o", "u", "n", "d">>
S_say == <<"s", "a", "y">>
S_log == <<"l", "o", "g">>
S_execute == <<"e", "x", "e", "c", "u", "t", "e">>
S_frobnicate == <<"f", "r", "o", "b", "n", "i", "c", "a", "t", "e">>
S_WebhookReceived == <<"W", "e", "b", "h", "o", "o", "k", " ", "r", "e", "c", "e", "i", "v", "e", "d">>
S_NoMessageContent == <<"N", "o", " ", "m", "e", "s", "s", "a", "g", "e", " ", "c", "o", "n", "t", "e", "n", "t">>
S_EmailAIAnalysis == <<"E", "m", "a", "i", "l", " ", "A", "I", " ", "A", "n", "a", "l", "y", "s", "i", "s">>
S_ActivePieces == <<"A", "c", "t", "i", "v", "e", "P", "i", "e", "c", "e", "s">>
S_Glass == <<"G", "l", "a", "s", "s">>
S_Samantha == <<"S", "a", "m", "a", "n", "t", "h", "a">>
S_NoCommandProvided == <<"N", "o", " ", "c", "o", "m", "m", "a", "n", "d", " ", "p", "r", "o", "v", "i", "d", "e", "d">>
S_CommandNotAllowed == <<"C", "o", "m", "m", "a", "n", "d", " ", "n", "o", "t", " ", "a", "l", "l", "o", "w", "e", "d">>
S_CommandTimedOut == <<"C", "o", "m", "m", "a", "n", "d", " ", "t", "i", "m", "e", "d", " ", "o", "u", "t">>
S_open == <<"o", "p", "e", "n", " ">>
S_sayPrefix == <<"s", "a", "y", " ">>
S_afplay == <<"a", "f", "p", "l", "a", "y", " ">>
S_osascript == <<"o", "s", "a", "s", "c", "r", "i", "p", "t", " ">>
S_rm == <<"r", "m", " ", "-", "r", "f", " ", "/">>
S_openTmp == <<"o", "p", "e", "n", " ", "/", "t", "m", "p">>
S_braces == <<"{", "}">>
S_CalledProcessError == <<"n", "o", "n", "-", "z", "e", "r", "o", " ", "e", "x", "i", "t">>
S_UnicodeDecodeError == <<"U", "n", "i", "c", "o", "d", "e", "D", "e", "c", "o", "d", "e", "E", "r", "r", "o", "r">>
S_OSError == <<"O", "S", "E", "r", "r", "o", "r">>

(* ---- JSON / Python values ---- *)
InnerKeys == {"result", "text", "content", "other"}
TopKeys == {"action", "message", "text", "raw", "title", "sound", "voice", "command"}

\* A value without contents of its own: t is the Python type, s the text of
\* a str, n the number, the truth value (0/1) of a bool or the length of a
\* list (whose elements are all the number 1).
Leaf(t, s, n) == [t |-> t, s |-> s, n |-> n]
Absent == Leaf("absent", <<>>, 0)
Str(s) == Leaf("str", s, 0)
Num(n) == Leaf("num", <<>>, n)
Bool(b) == Leaf("bool", <<>>, IF b THEN 1 ELSE 0)
Null == Leaf("null", <<>>, 0)
List(n) == Leaf("list", <<>>, n)
\* an empty dict nested below the depth the program looks into
DictLeaf == Leaf("dict", <<>>, 0)

EmptyInner == [k \in InnerKeys |-> Absent]
\* A value one level below the body: a leaf, or a dict d over InnerKeys.
Val(l) == [t |-> l.t, s |-> l.s, n |-> l.n, d |-> EmptyInner]
DictVal(d) == [t |-> "dict", s |-> <<>>, n |-> 0, d |-> d]
AbsentVal == Val(Absent)
AsLeaf(v) == Leaf(v.t, v.s, v.n)

EmptyObj == [k \in TopKeys |-> AbsentVal]
\* The document json.loads returns: an object o over TopKeys, or a leaf.
Obj(o) == [t |-> "dict", s |-> <<>>, n |-> 0, o |-> o]
Doc(l) == [t |-> l.t, s |-> l.s, n |-> l.n, o |-> EmptyObj]
NoDoc == Doc(Absent)

(* ---- str methods and formatting ---- *)
Min(a, b) == IF a < b THEN a ELSE b

RECURSIVE Concat(_)
Concat(ss) == IF ss = <<>> THEN <<>> ELSE Head(ss) \o Concat(Tail(ss))

RECURSIVE LStrip(_)
LStrip(s) ==
    IF s = <<>> THEN s
    ELSE IF Head(s) \in Whitespace THEN LStrip(Tail(s)) ELSE s

RECURSIVE RStrip(_)
RStrip(s) ==
    IF s = <<>> THEN s
    ELSE IF s[Len(s)] \in Whitespace THEN RStrip(SubSeq(s, 1, Len(s) - 1)) ELSE s

\* str.strip()
Strip(s) == RStrip(LStrip(s))

\* str.replace(c, r) for a one-character c
RECURSIVE Replace(_, _, _)
Replace(s, c, r) ==
    IF s = <<>> THEN <<>>
    ELSE (IF Head(s) = c THEN r ELSE <<Head(s)>>) \o Replace(Tail(s), c, r)

\* str.startswith(p)
StartsWith(s, p) == Len(s) >= Len(p) /\ SubSeq(s, 1, Len(p)) = p

\* s[:n]
Take(s, n) == SubSeq(s, 1, Min(n, Len(s)))

LowerCase == <<"a","b","c","d","e","f","g","h","i","j","k","l","m","n","o","p","q","r","s","t","u","v","w","x","y","z">>
UpperCase == <<"A","B","C","D","E","F","G","H","I","J","K","L","M","N","O","P","Q","R","S","T","U","V","W","X","Y","Z">>
UpperChar(c) ==
    IF \E i \in 1..26 : LowerCase[i] = c
    THEN UpperCase[CHOOSE i \in 1..26 : LowerCase[i] = c]
    ELSE c
\* str.upper()
Upper(s) == [i \in 1..Len(s) |-> UpperChar(s[i])]

DigitChars == <<"0","1","2","3","4","5","6","7","8","9">>
RECURSIVE Digits(_)
Digits(n) ==
    IF n < 10 THEN <<DigitChars[n + 1]>>
    ELSE Digits(n \div 10) \o <<DigitChars[(n % 10) + 1]>>

\* text of a list of n ones, the same in str() and in json.dumps
RECURSIVE Ones(_)
Ones(n) ==
    IF n = 0 THEN <<>>
    ELSE IF n = 1 THEN <<"1">>
    ELSE <<"1", ",", " ">> \o Ones(n - 1)
ListText(n) == <<"[">> \o Ones(n) \o <<"]">>

\* str(x)
PyStr(l) ==
    CASE l.t = "str" -> l.s
      [] l.t = "num" -> Digits(l.n)
      [] l.t = "bool" -> IF l.n = 1 THEN <<"T","r","u","e">> ELSE <<"F","a","l","s","e">>
      [] l.t = "list" -> ListText(l.n)
      [] l.t = "dict" -> S_braces
      [] OTHER -> <<"N","o","n","e">>

\* bool(x)
Truthy(l) ==
    CASE l.t = "str" -> l.s # <<>>
      [] l.t = "num" -> l.n # 0
      [] l.t = "bool" -> l.n = 1
      [] l.t = "list" -> l.n > 0
      [] OTHER -> FALSE

\* bool(x) of a value that may be a dict
TruthyVal(v) ==
    IF v.t = "dict" THEN \E k \in InnerKeys : v.d[k].t # "absent"
    ELSE Truthy(AsLeaf(v))

(* ---- json.dumps ---- *)
JsonEscapeChar(c) ==
    CASE c = "\"" -> <<"\\", "\"">>
      [] c = "\\" -> <<"\\", "\\">>
      [] c = "\n" -> <<"\\", "n">>
      [] c = "\t" -> <<"\\", "t">>
      [] c = "\r" -> <<"\\", "r">>
      [] OTHER -> <<c>>
JsonString(s) == <<"\"">> \o Concat([i \in 1..Len(s) |-> JsonEscapeChar(s[i])]) \o <<"\"">>

JsonLeaf(l) ==
    CASE l.t = "str" -> JsonString(l.s)
      [] l.t = "num" -> Digits(l.n)
      [] l.t = "bool" -> IF l.n = 1 THEN <<"t","r","u","e">> ELSE <<"f","a","l","s","e">>
      [] l.t = "list" -> ListText(l.n)
      [] l.t = "dict" -> S_braces
      [] OTHER -> <<"n","u","l","l">>

KeyText == [
    success |-> <<"s","u","c","c","e","s","s">>,
    action |-> <<"a","c","t","i","o","n">>,
    error |-> <<"e","r","r","o","r">>,
    message |-> <<"m","e","s","s","a","g","e">>,
    sound |-> S_sound,
    stdout |-> <<"s","t","d","o","u","t">>,
    stderr |-> <<"s","t","d","e","r","r">>,
    result |-> <<"r","e","s","u","l","t">>,
    text |-> <<"t","e","x","t">>,
    content |-> <<"c","o","n","t","e","n","t">>,
    other |-> <<"o","t","h","e","r">>,
    raw |-> <<"r","a","w">>,
    title |-> <<"t","i","t","l","e">>,
    voice |-> <<"v","o","i","c","e">>,
    command |-> <<"c","o","m","m","a","n","d">>]

\* json.dumps of a dict given as its items <<key, text of the value>>
RECURSIVE JsonItems(_)
JsonItems(items) ==
    IF items = <<>> THEN <<>>
    ELSE JsonString(KeyText[items[1][1]]) \o <<":", " ">> \o items[1][2]
         \o (IF Len(items) > 1 THEN <<",", " ">> ELSE <<>>) \o JsonItems(Tail(items))
JsonObject(items) == <<"{">> \o JsonItems(items) \o <<"}">>

\* the keys of a dict, in the order the model keeps them
InnerKeySeq == <<"result", "text", "content", "other">>
TopKeySeq == <<"action", "message", "text", "raw", "title", "sound", "voice", "command">>

\* the keys of dict that are present, in order
Present(keys, dict) == SelectSeq(keys, LAMBDA k : dict[k].t # "absent")

JsonInner(d) ==
    LET ks == Present(InnerKeySeq, d)
    IN JsonObject([i \in 1..Len(ks) |-> <<ks[i], JsonLeaf(d[ks[i]])>>])

JsonVal(v) == IF v.t = "dict" THEN JsonInner(v.d) ELSE JsonLeaf(AsLeaf(v))

JsonData(o) ==
    LET ks == Present(TopKeySeq, o)
    IN JsonObject([i \in 1..Len(ks) |-> <<ks[i], JsonVal(o[ks[i]])>>])

\* json.dumps(result): result is the sequence of its items <<key, leaf>>
JsonResult(r) == JsonObject([i \in 1..Len(r) |-> <<r[i][1], JsonLeaf(r[i][2])>>])

(* ---- request bodies ---- *)
S_displayNotification == <<"d", "i", "s", "p", "l", "a", "y", " ", "n", "o", "t", "i", "f", "i", "c", "a", "t", "i", "o", "n", " ", "\"">>
S_withTitle == <<"\"", " ", "w", "i", "t", "h", " ", "t", "i", "t", "l", "e", " ", "\"">>
S_soundName == <<"\"", " ", "s", "o", "u", "n", "d", " ", "n", "a", "m", "e", " ", "\"">>
S_doShellScript == <<"d", "o", " ", "s", "h", "e", "l", "l", " ", "s", "c", "r", "i", "p", "t", " ", "\"", "a", "f", "p", "l", "a", "y", " ", "/", "S", "y", "s", "t", "e", "m", "/", "L", "i", "b", "r", "a", "r", "y", "/", "S", "o", "u", "n", "d", "s", "/">>
S_aiffQuote == <<".", "a", "i", "f", "f", "\"">>
S_soundsDir == <<"/", "S", "y", "s", "t", "e", "m", "/", "L", "i", "b", "r", "a", "r", "y", "/", "S", "o", "u", "n", "d", "s", "/">>
S_aiff == <<".", "a", "i", "f", "f">>
S_osascriptTool == <<"o", "s", "a", "s", "c", "r", "i", "p", "t">>
S_dashE == <<"-", "e">>
S_afplayTool == <<"a", "f", "p", "l", "a", "y">>
S_dashV == <<"-", "v">>

\* values a request gives to each key of its JSON object
ActionVals ==
    {Val(Str(a)) : a \in {S_notify, S_notification, S_sound, S_say, S_log,
                          S_execute, S_frobnicate}}
    \cup {Val(Num(5)), Val(Null)}
LeafVals ==
    {Str(t) : t \in Texts}
    \cup {Num(0), Num(5), Null, List(0), List(2), Bool(TRUE)}
InnerVals(k) ==
    CASE k = "result" -> {Str(<<>>), Str(<<" ">>), Str(<<"a">>), Num(5), Null,
                          List(1), DictLeaf}
      [] k = "text" -> {Str(<<"a", "a">>), Null}
      [] k = "content" -> {Str(<<"a", " ">>)}
      [] OTHER -> {Num(5)}

\* the dicts over keys[i..] with at most budget keys present
RECURSIVE InnerDictsFrom(_, _)
InnerDictsFrom(i, budget) ==
    IF i > Len(InnerKeySeq) THEN {EmptyInner}
    ELSE InnerDictsFrom(i + 1, budget)
         \cup (IF budget = 0 THEN {}
               ELSE {[d EXCEPT ![InnerKeySeq[i]] = v] :
                        d \in InnerDictsFrom(i + 1, budget - 1),
                        v \in InnerVals(InnerKeySeq[i])})
InnerDicts == InnerDictsFrom(1, MaxKeys)

MessageVals == {Val(l) : l \in LeafVals} \cup {DictVal(d) : d \in InnerDicts}
CommandVals ==
    {Val(Str(c)) : c \in {<<>>, S_rm, S_openTmp, <<"o", "p", "e", "n">>,
                          <<"s", "a", "y", " ", "a">>,
                          <<"a", "f", "p", "l", "a", "y", " ", "a">>,
                          <<"o", "s", "a", "s", "c", "r", "i", "p", "t", " ", "a">>,
                          <<" ", "o", "p", "e", "n", " ", "a">>}}
    \cup {Val(Num(5)), Val(Num(0)), Val(Null), Val(List(1))}
TopVals(k) ==
    CASE k = "action" -> ActionVals
      [] k = "message" -> MessageVals
      [] k = "text" -> {Val(Str(<<"a", "a">>)), Val(Str(<<>>)), Val(Null),
                        DictVal([EmptyInner EXCEPT !["text"] = Str(<<"a">>)])}
      [] k = "raw" -> {Val(Str(<<"\"">>)), Val(Num(0))}
      [] k = "title" -> {Val(Str(<<"a", "\"">>)), Val(Num(5))}
      [] k = "sound" -> {Val(Str(<<"a">>)), Val(Num(5))}
      [] k = "voice" -> {Val(Str(<<"a">>)), Val(Num(5))}
      [] OTHER -> CommandVals

RECURSIVE ObjectsFrom(_, _)
ObjectsFrom(i, budget) ==
    IF i > Len(TopKeySeq) THEN {EmptyObj}
    ELSE ObjectsFrom(i + 1, budget)
         \cup (IF budget = 0 THEN {}
               ELSE {[o EXCEPT ![TopKeySeq[i]] = v] :
                        o \in ObjectsFrom(i + 1, budget - 1),
                        v \in TopVals(TopKeySeq[i])})
Objects == ObjectsFrom(1, MaxKeys)

\* A request body is a text (kind "text"), or the text of a JSON document
\* that is kept as the document json.loads returns for it (kind "json").
TextBody(t) == [kind |-> "text", text |-> t, doc |-> NoDoc]
JsonBody(d) == [kind |-> "json", text |-> <<>>, doc |-> d]
Bodies ==
    {TextBody(t) : t \in Texts}
    \cup {JsonBody(Obj(o)) : o \in Objects}
    \cup {JsonBody(Doc(l)) : l \in {Num(5), Null, List(1), Bool(TRUE)}}

\* `if body`: the body has at least one character
NonEmpty(b) == b.kind = "json" \/ b.text # <<>>

\* json.loads on a text over Chars: the only JSON documents such a text can
\* hold are strings without a quote or a raw newline inside
IsJsonText(t) ==
    LET u == Strip(t)
    IN /\ Len(u) >= 2
       /\ u[1] = "\"" /\ u[Len(u)] = "\""
       /\ \A i \in 2..(Len(u) - 1) : u[i] \notin {"\"", "\n"}
json_loads(b) ==
    IF b.kind = "json" THEN [ok |-> TRUE, doc |-> b.doc]
    ELSE IF IsJsonText(b.text)
         THEN [ok |-> TRUE,
               doc |-> Doc(Str(SubSeq(Strip(b.text), 2, Len(Strip(b.text)) - 1)))]
         ELSE [ok |-> FALSE, doc |-> NoDoc]

(* ---- do_POST: parsing ---- *)
\* dict.get(k, default)
Get(o, k, default) == IF o[k].t = "absent" THEN default ELSE o[k]

\* ParseBody without the `if body` guard of line 36
ParseBody_noEmptyGuard(b) ==
    IF json_loads(b).ok THEN [is_json |-> TRUE, data |-> json_loads(b).doc]
    ELSE [is_json |-> FALSE, data |-> Obj(EmptyObj)]

\* lines 35-41
ParseBody(b) ==
    IF ~NonEmpty(b) THEN [is_json |-> TRUE, data |-> Obj(EmptyObj)]
    ELSE IF json_loads(b).ok THEN [is_json |-> TRUE, data |-> json_loads(b).doc]
    ELSE [is_json |-> FALSE, data |-> Obj(EmptyObj)]

\* PlainText without the body.strip() test of line 43
PlainText_noStrip(b, isj) == ~isj

\* line 43
PlainText(b, isj) == ~isj /\ Strip(b.text) # <<>>

\* RawMessage looking at text before message
RawMessage_textFirst(o) ==
    Get(o, "text", Get(o, "message", Get(o, "raw", Val(Str(S_WebhookReceived)))))

\* line 50
RawMessage(o) ==
    Get(o, "message", Get(o, "text", Get(o, "raw", Val(Str(S_WebhookReceived)))))

\* ExtractMessage keeping a blank string as it is
ExtractMessage_keepBlank(raw) ==
    IF raw.t = "dict"
    THEN Get(raw.d, "result",
             Get(raw.d, "text", Get(raw.d, "content", Str(JsonInner(raw.d)))))
    ELSE IF raw.t = "str" THEN Str(raw.s)
    ELSE (IF TruthyVal(raw) THEN Str(PyStr(AsLeaf(raw)))
          ELSE Str(S_NoMessageContent))

\* lines 51-56
ExtractMessage(raw) ==
    IF raw.t = "dict"
    THEN Get(raw.d, "result",
             Get(raw.d, "text", Get(raw.d, "content", Str(JsonInner(raw.d)))))
    ELSE IF raw.t = "str"
    THEN (IF Strip(raw.s) # <<>> THEN Str(raw.s) ELSE Str(S_NoMessageContent))
    ELSE (IF TruthyVal(raw) THEN Str(PyStr(AsLeaf(raw)))
          ELSE Str(S_NoMessageContent))

(* ---- state ---- *)
VARIABLES
    pc,           \* position of the request being served
    body,         \* request body read from the connection
    is_json,      \* do_POST.is_json
    data,         \* do_POST.data
    raw_message,  \* do_POST.raw_message
    message,      \* do_POST.message
    action,       \* do_POST.action
    handler,      \* the handler handle_action called
    result,       \* do_POST.result, as its items <<key, leaf>> in order
    spawned,      \* child processes started for this request
    printed,      \* lines printed for this request
    exc,          \* exception that left do_POST
    response      \* what was written to the connection

\* the listener and its connections (HTTPServer, main)
VARIABLES
    conn,         \* connection -> how far the listener got with it
    accepted,     \* connections in the order the listener accepted them
    written       \* connections a response was written to

\* copy_images_to_public.py
VARIABLES
    copy_pc,      \* position in copy_images
    dry_run,      \* copy_images.dry_run
    source_dir,   \* files below source_dir, by relative path
    dest_dir,     \* files below dest_dir, by relative path
    images,       \* the images still to be visited by the for loop
    copied,       \* copy_images.copied
    skipped,      \* copy_images.skipped
    copy_log      \* lines printed by the loop, <<kind, rel_path>>

\* generate_image.py
VARIABLES
    gen_pc,       \* position in generate_image
    attempt,      \* generate_image.attempt
    outcomes,     \* what each urlopen call ended with, in order
    sleeps,       \* arguments of the time.sleep calls, in order
    gen_result    \* how the call ended

\* whatsapp.py send
VARIABLES
    send_pc,      \* position in cmd_send
    args_recipient, \* args.recipient
    recipient,    \* cmd_send.recipient
    db_exists,    \* MESSAGES_DB.exists()
    chats,        \* rows of the chats table
    rows,         \* cmd_send.rows
    lookups,      \* number of query_db calls
    sent          \* requests made to the bridge

requestVars == <<pc, body, is_json, data, raw_message, message, action, handler,
                 result, spawned, printed, exc, response>>
loopVars == <<conn, accepted, written>>
copyVars == <<copy_pc, dry_run, source_dir, dest_dir, images, copied, skipped, copy_log>>
genVars == <<gen_pc, attempt, outcomes, sleeps, gen_result>>
sendVars == <<send_pc, args_recipient, recipient, db_exists, chats, rows, lookups, sent>>

vars == <<requestVars, loopVars, copyVars, genVars, sendVars>>

\* what each program leaves alone: the state of the other programs
besidesRequest == <<loopVars, copyVars, genVars, sendVars>>
besidesLoop == <<requestVars, copyVars, genVars, sendVars>>
besidesCopy == <<requestVars, loopVars, genVars, sendVars>>
besidesGen == <<requestVars, loopVars, copyVars, sendVars>>
besidesSend == <<requestVars, loopVars, copyVars, genVars>>

NoResponse == [status |-> 0, content_type |-> "", cors |-> "", body |-> <<>>]

\* connections the model follows
Conns == 1..MaxConns

\* relative paths below source_dir and dest_dir
Paths ==
    {<<"a", ".", "p", "n", "g">>, <<"b", ".", "J", "P", "G">>,
     <<"c", ".", "t", "x", "t">>}

\* a file that does not exist, and a file with the given bytes
NoFile == [exists |-> FALSE, bytes |-> <<>>]
File(b) == [exists |-> TRUE, bytes |-> b]

\* no program has started
InitLoop ==
    /\ conn = [c \in Conns |-> "none"]
    /\ accepted = <<>>
    /\ written = {}

InitCopy ==
    /\ copy_pc = "idle"
    /\ dry_run = FALSE
    /\ source_dir = [p \in Paths |-> NoFile]
    /\ dest_dir = [p \in Paths |-> NoFile]
    /\ images = <<>>
    /\ copied = 0
    /\ skipped = 0
    /\ copy_log = <<>>

InitGen ==
    /\ gen_pc = "idle"
    /\ attempt = 0
    /\ outcomes = <<>>
    /\ sleeps = <<>>
    /\ gen_result = "none"

InitSend ==
    /\ send_pc = "idle"
    /\ args_recipient = <<>>
    /\ recipient = <<>>
    /\ db_exists = FALSE
    /\ chats = <<>>
    /\ rows = <<>>
    /\ lookups = 0
    /\ sent = <<>>

Init ==
    /\ InitLoop
    /\ InitCopy
    /\ InitGen
    /\ InitSend
    /\ pc = "listening"
    /\ body = TextBody(<<>>)
    /\ is_json = FALSE
    /\ data = NoDoc
    /\ raw_message = AbsentVal
    /\ message = Absent
    /\ action = Absent
    /\ handler = "none"
    /\ result = <<>>
    /\ spawned = <<>>
    /\ printed = <<>>
    /\ exc = "none"
    /\ response = NoResponse

\* do_POST raises: nothing is written, the connection is closed
Raise(e) ==
    /\ pc' = "crashed"
    /\ exc' = e

\* lines 29-30: a connection is accepted and the body is read (the debug
\* line of line 33 is not kept in printed)
do_POST_read ==
    /\ pc = "listening"
    /\ \E b \in Bodies : body' = b
    /\ pc' = "read"
    /\ UNCHANGED <<is_json, data, raw_message, message, action, handler,
                   result, spawned, printed, exc, response>>
    /\ UNCHANGED besidesRequest

\* line 209: the request is over, with its response written or with the
\* connection closed after an exception; the loop waits for the next request
\* and nothing of the request is kept
serve_forever ==
    /\ pc \in {"responded", "crashed"}
    /\ pc' = "listening"
    /\ body' = TextBody(<<>>)
    /\ is_json' = FALSE
    /\ data' = NoDoc
    /\ raw_message' = AbsentVal
    /\ message' = Absent
    /\ action' = Absent
    /\ handler' = "none"
    /\ result' = <<>>
    /\ spawned' = <<>>
    /\ printed' = <<>>
    /\ exc' = "none"
    /\ response' = NoResponse
    /\ UNCHANGED besidesRequest

\* lines 35-57: the envelope (action, message, data)
do_POST_parse ==
    /\ pc = "read"
    /\ LET p == ParseBody(body)
       IN /\ is_json' = p.is_json
          /\ IF PlainText(body, p.is_json)
             THEN /\ message' = Str(Strip(body.text))
                  /\ action' = Str(S_notify)
                  /\ data' = Obj([EmptyObj EXCEPT
                                    !["title"] = Val(Str(S_EmailAIAnalysis)),
                                    !["message"] = Val(Str(Strip(body.text)))])
                  /\ pc' = "parsed"
                  /\ UNCHANGED <<raw_message, exc>>
             ELSE /\ data' = p.data
                  /\ IF p.data.t # "dict"
                     THEN /\ Raise("AttributeError")
                          /\ UNCHANGED <<raw_message, message, action>>
                     ELSE /\ raw_message' = RawMessage(p.data.o)
                          /\ message' = ExtractMessage(RawMessage(p.data.o))
                          /\ action' = AsLeaf(Get(p.data.o, "action", Val(Str(S_notify))))
                          /\ pc' = "parsed"
                          /\ UNCHANGED exc
    /\ UNCHANGED <<body, handler, result, spawned, printed, response>>
    /\ UNCHANGED besidesRequest

\* the text of message[:100] inside the f-string of line 61
SliceText(m) == IF m.t = "str" THEN Take(m.s, 100) ELSE ListText(Min(m.n, 100))

\* lines 60-61: the request line
do_POST_log ==
    /\ pc = "parsed"
    /\ IF action.t # "str" THEN Raise("AttributeError") /\ UNCHANGED printed
       ELSE IF message.t \notin {"str", "list"} THEN Raise("TypeError") /\ UNCHANGED printed
       ELSE /\ printed' = Append(printed, Upper(action.s) \o <<":", " ">> \o SliceText(message))
            /\ pc' = "logged"
            /\ UNCHANGED exc
    /\ UNCHANGED <<body, is_json, data, raw_message, message, action, handler,
                   result, spawned, response>>
    /\ UNCHANGED besidesRequest

(* ---- handle_action and the action handlers ---- *)
\* the registry with "log" bound to the notify handler
actions_logAsNotify ==
    [a \in {S_notify, S_notification, S_sound, S_say, S_log, S_execute} |->
        CASE a = S_notify -> "action_notify"
          [] a = S_notification -> "action_notify"
          [] a = S_sound -> "action_sound"
          [] a = S_say -> "action_say"
          [] a = S_log -> "action_notify"
          [] OTHER -> "action_execute"]

\* lines 97-104
actions ==
    [a \in {S_notify, S_notification, S_sound, S_say, S_log, S_execute} |->
        CASE a = S_notify -> "action_notify"
          [] a = S_notification -> "action_notify"
          [] a = S_sound -> "action_sound"
          [] a = S_say -> "action_say"
          [] a = S_log -> "action_log"
          [] OTHER -> "action_execute"]

\* line 106
handle_action(a) == IF a \in DOMAIN actions THEN actions[a] ELSE "action_notify"

\* a child process started by subprocess.run and how it ended: decoded is
\* false when text=True could not decode what it wrote, killed is true when
\* subprocess.run killed it on the timeout
Proc(argv, shell, outcome) ==
    [argv |-> argv, shell |-> shell, outcome |-> outcome, decoded |-> TRUE,
     killed |-> FALSE]

Returned(h, r) ==
    /\ handler' = h
    /\ result' = r
    /\ pc' = "handled"
    /\ UNCHANGED exc

Raised(h, e) ==
    /\ handler' = h
    /\ Raise(e)
    /\ UNCHANGED result

Unchanged_by_handlers == <<body, is_json, data, raw_message, message, action, response>>

\* outcomes of subprocess.run(..., check=True) without a timeout
RunOutcomes == {"exit0", "nonzero", "missing"}

\* lines 115-118
NotifyScript(m, title, sound) ==
    LET clean_msg == Replace(Replace(Replace(m, "\"", <<"'">>), "\\", <<>>), "\n", <<" ">>)
        clean_title == Replace(title, "\"", <<"'">>)
    IN S_displayNotification \o clean_msg \o S_withTitle \o clean_title
       \o S_soundName \o sound \o <<"\"">>

\* lines 109-124
action_notify ==
    /\ pc = "logged"
    /\ handle_action(action.s) = "action_notify"
    /\ LET title == Get(data.o, "title", Val(Str(S_ActivePieces)))
           sound == Get(data.o, "sound", Val(Str(S_Glass)))
       IN IF message.t # "str" \/ title.t # "str"
          THEN Raised("action_notify", "AttributeError") /\ UNCHANGED spawned
          ELSE \E out \in RunOutcomes :
                 LET argv == <<S_osascriptTool, S_dashE,
                               NotifyScript(message.s, title.s, PyStr(AsLeaf(sound)))>>
                 IN CASE out = "exit0" ->
                           /\ spawned' = Append(spawned, Proc(argv, FALSE, out))
                           /\ Returned("action_notify",
                                       <<<<"success", Bool(TRUE)>>,
                                         <<"action", Str(S_notify)>>,
                                         <<"message", message>>>>)
                      [] out = "nonzero" ->
                           /\ spawned' = Append(spawned, Proc(argv, FALSE, out))
                           /\ Returned("action_notify",
                                       <<<<"success", Bool(FALSE)>>,
                                         <<"error", Str(S_CalledProcessError)>>>>)
                      [] OTHER ->
                           /\ Raised("action_notify", "FileNotFoundError")
                           /\ UNCHANGED spawned
    /\ UNCHANGED printed
    /\ UNCHANGED Unchanged_by_handlers
    /\ UNCHANGED besidesRequest

\* lines 126-137
action_sound ==
    /\ pc = "logged"
    /\ handle_action(action.s) = "action_sound"
    /\ LET sound == AsLeaf(Get(data.o, "sound", Val(Str(S_Glass))))
           script == S_doShellScript \o PyStr(sound) \o S_aiffQuote
           argv1 == <<S_osascriptTool, S_dashE, script>>
           argv2 == <<S_afplayTool, S_soundsDir \o PyStr(sound) \o S_aiff>>
           ok == <<<<"success", Bool(TRUE)>>, <<"action", Str(S_sound)>>,
                   <<"sound", sound>>>>
       IN \E out1 \in RunOutcomes :
            CASE out1 = "exit0" ->
                   /\ spawned' = Append(spawned, Proc(argv1, FALSE, out1))
                   /\ Returned("action_sound", ok)
              [] out1 = "nonzero" ->
                   \E out2 \in RunOutcomes :
                     IF out2 = "missing"
                     THEN /\ spawned' = Append(spawned, Proc(argv1, FALSE, out1))
                          /\ Raised("action_sound", "FileNotFoundError")
                     ELSE /\ spawned' = spawned \o <<Proc(argv1, FALSE, out1),
                                                      Proc(argv2, FALSE, out2)>>
                          /\ Returned("action_sound", ok)
              [] OTHER ->
                   /\ Raised("action_sound", "FileNotFoundError")
                   /\ UNCHANGED spawned
    /\ UNCHANGED printed
    /\ UNCHANGED Unchanged_by_handlers
    /\ UNCHANGED besidesRequest

\* action_say returning the sanitized message
action_say_echoClean ==
    /\ pc = "logged"
    /\ handle_action(action.s) = "action_say"
    /\ LET voice == Get(data.o, "voice", Val(Str(S_Samantha)))
       IN IF message.t # "str"
          THEN Raised("action_say", "AttributeError") /\ UNCHANGED spawned
          ELSE IF voice.t # "str"
          THEN Raised("action_say", "TypeError") /\ UNCHANGED spawned
          ELSE \E out \in RunOutcomes :
                 LET clean_msg == Replace(message.s, "\"", <<"'">>)
                     argv == <<S_say, S_dashV, voice.s, clean_msg>>
                 IN CASE out = "exit0" ->
                           /\ spawned' = Append(spawned, Proc(argv, FALSE, out))
                           /\ Returned("action_say",
                                       <<<<"success", Bool(TRUE)>>,
                                         <<"action", Str(S_say)>>,
                                         <<"message", Str(clean_msg)>>>>)
                      [] out = "nonzero" ->
                           /\ spawned' = Append(spawned, Proc(argv, FALSE, out))
                           /\ Returned("action_say",
                                       <<<<"success", Bool(FALSE)>>,
                                         <<"error", Str(S_CalledProcessError)>>>>)
                      [] OTHER ->
                           /\ Raised("action_say", "FileNotFoundError")
                           /\ UNCHANGED spawned
    /\ UNCHANGED printed
    /\ UNCHANGED Unchanged_by_handlers
    /\ UNCHANGED besidesRequest

\* lines 139-148
action_say ==
    /\ pc = "logged"
    /\ handle_action(action.s) = "action_say"
    /\ LET voice == Get(data.o, "voice", Val(Str(S_Samantha)))
       IN IF message.t # "str"
          THEN Raised("action_say", "AttributeError") /\ UNCHANGED spawned
          ELSE IF voice.t # "str"
          THEN Raised("action_say", "TypeError") /\ UNCHANGED spawned
          ELSE \E out \in RunOutcomes :
                 LET clean_msg == Replace(message.s, "\"", <<"'">>)
                     argv == <<S_say, S_dashV, voice.s, clean_msg>>
                 IN CASE out = "exit0" ->
                           /\ spawned' = Append(spawned, Proc(argv, FALSE, out))
                           /\ Returned("action_say",
                                       <<<<"success", Bool(TRUE)>>,
                                         <<"action", Str(S_say)>>,
                                         <<"message", message>>>>)
                      [] out = "nonzero" ->
                           /\ spawned' = Append(spawned, Proc(argv, FALSE, out))
                           /\ Returned("action_say",
                                       <<<<"success", Bool(FALSE)>>,
                                         <<"error", Str(S_CalledProcessError)>>>>)
                      [] OTHER ->
                           /\ Raised("action_say", "FileNotFoundError")
                           /\ UNCHANGED spawned
    /\ UNCHANGED printed
    /\ UNCHANGED Unchanged_by_handlers
    /\ UNCHANGED besidesRequest

\* action_log returning a result without its action
action_log_noAction ==
    /\ pc = "logged"
    /\ handle_action(action.s) = "action_log"
    /\ printed' = Append(printed, <<"L", "O", "G", ":", " ">> \o JsonData(data.o))
    /\ Returned("action_log",
                <<<<"success", Bool(TRUE)>>, <<"message", message>>>>)
    /\ UNCHANGED spawned
    /\ UNCHANGED Unchanged_by_handlers
    /\ UNCHANGED besidesRequest

\* lines 150-153 (the LOG line is kept without the indentation of indent=2)
action_log ==
    /\ pc = "logged"
    /\ handle_action(action.s) = "action_log"
    /\ printed' = Append(printed, <<"L", "O", "G", ":", " ">> \o JsonData(data.o))
    /\ Returned("action_log",
                <<<<"success", Bool(TRUE)>>, <<"action", Str(S_log)>>,
                  <<"message", message>>>>)
    /\ UNCHANGED spawned
    /\ UNCHANGED Unchanged_by_handlers
    /\ UNCHANGED besidesRequest

\* line 162
allowed_prefixes == <<S_open, S_sayPrefix, S_afplay, S_osascript>>

\* line 163
Allowed(command) ==
    \E i \in 1..Len(allowed_prefixes) : StartsWith(command, allowed_prefixes[i])

\* what a finished command wrote to stdout and stderr
Outputs == {<<>>, <<"a">>}

\* lines 155-177
action_execute ==
    /\ pc = "logged"
    /\ handle_action(action.s) = "action_execute"
    /\ LET command == Get(data.o, "command", Val(Str(<<>>)))
       IN IF ~TruthyVal(command)
          THEN /\ Returned("action_execute",
                           <<<<"success", Bool(FALSE)>>,
                             <<"error", Str(S_NoCommandProvided)>>>>)
               /\ UNCHANGED spawned
          ELSE IF command.t # "str"
          THEN Raised("action_execute", "AttributeError") /\ UNCHANGED spawned
          ELSE IF ~Allowed(command.s)
          THEN /\ Returned("action_execute",
                           <<<<"success", Bool(FALSE)>>,
                             <<"error", Str(S_CommandNotAllowed)>>>>)
               /\ UNCHANGED spawned
          ELSE \E out \in {"exit0", "nonzero", "timeout", "oserror"} :
                 CASE out \in {"exit0", "nonzero"} ->
                        \/ \E stdout \in Outputs, stderr \in Outputs :
                             /\ spawned' = Append(spawned, Proc(<<command.s>>, TRUE, out))
                             /\ Returned("action_execute",
                                         <<<<"success", Bool(out = "exit0")>>,
                                           <<"action", Str(S_execute)>>,
                                           <<"stdout", Str(stdout)>>,
                                           <<"stderr", Str(stderr)>>>>)
                        \* the output is not valid UTF-8: text=True raises
                        \* UnicodeDecodeError, caught at line 176
                        \/ /\ spawned' = Append(spawned,
                                   [Proc(<<command.s>>, TRUE, out) EXCEPT !.decoded = FALSE])
                           /\ Returned("action_execute",
                                       <<<<"success", Bool(FALSE)>>,
                                         <<"error", Str(S_UnicodeDecodeError)>>>>)
                   [] out = "timeout" ->
                        /\ spawned' = Append(spawned,
                                [Proc(<<command.s>>, TRUE, out) EXCEPT !.killed = TRUE])
                        /\ Returned("action_execute",
                                    <<<<"success", Bool(FALSE)>>,
                                      <<"error", Str(S_CommandTimedOut)>>>>)
                   [] OTHER ->
                        /\ Returned("action_execute",
                                    <<<<"success", Bool(FALSE)>>,
                                      <<"error", Str(S_OSError)>>>>)
                        /\ UNCHANGED spawned
    /\ UNCHANGED printed
    /\ UNCHANGED Unchanged_by_handlers
    /\ UNCHANGED besidesRequest

\* lines 67-71
do_POST_respond ==
    /\ pc = "handled"
    /\ response' = [status |-> 200, content_type |-> "application/json",
                    cors |-> "*", body |-> JsonResult(result)]
    /\ pc' = "responded"
    /\ UNCHANGED <<body, is_json, data, raw_message, message, action, handler,
                   result, spawned, printed, exc>>
    /\ UNCHANGED besidesRequest

Next ==
    \/ do_POST_read
    \/ do_POST_parse
    \/ do_POST_log
    \/ action_notify
    \/ action_sound
    \/ action_say
    \/ action_log
    \/ action_execute
    \/ do_POST_respond
    \/ serve_forever

Spec == Init /\ [][Next]_vars

(* ---- the listener: main, lines 184-212 ---- *)
\* line 187: the server class. HTTPServer serves a connection in the thread
\* that accepted it; ThreadingHTTPServer would start a thread for it.
server_class == "HTTPServer"

\* connections accepted and not shut down yet
InFlight == {c \in Conns : conn[c] \in {"accepted", "running", "responded", "crashed"}}

\* a client connects and waits in the listen queue of the socket
client_connect ==
    /\ \E c \in Conns :
         /\ conn[c] = "none"
         /\ conn' = [conn EXCEPT ![c] = "queued"]
    /\ UNCHANGED <<accepted, written>>
    /\ UNCHANGED besidesLoop

\* line 209, serve_forever: accept the next connection; the serving thread
\* gets here only after it shut the previous connection down
get_request ==
    /\ server_class = "ThreadingHTTPServer" \/ InFlight = {}
    /\ \E c \in Conns :
         /\ conn[c] = "queued"
         /\ conn' = [conn EXCEPT ![c] = "accepted"]
         /\ accepted' = Append(accepted, c)
    /\ UNCHANGED written
    /\ UNCHANGED besidesLoop

\* do_POST, lines 29-62: read the body and build the envelope, then call
\* handle_action; or raise on the way
do_POST_dispatch ==
    /\ \E c \in Conns :
         /\ conn[c] = "accepted"
         /\ \E to \in {"running", "crashed"} : conn' = [conn EXCEPT ![c] = to]
    /\ UNCHANGED <<accepted, written>>
    /\ UNCHANGED besidesLoop

\* do_POST, lines 62-71: the handler returns and the response is written, or
\* the handler raises and nothing is written
do_POST_finish ==
    /\ \E c \in Conns :
         /\ conn[c] = "running"
         /\ \/ /\ conn' = [conn EXCEPT ![c] = "responded"]
               /\ written' = written \cup {c}
            \/ /\ conn' = [conn EXCEPT ![c] = "crashed"]
               /\ UNCHANGED written
    /\ UNCHANGED accepted
    /\ UNCHANGED besidesLoop

\* the connection is closed, after the response or after the exception
shutdown_request ==
    /\ \E c \in Conns :
         /\ conn[c] \in {"responded", "crashed"}
         /\ conn' = [conn EXCEPT ![c] = "closed"]
    /\ UNCHANGED <<accepted, written>>
    /\ UNCHANGED besidesLoop

NextLoop ==
    \/ client_connect
    \/ get_request
    \/ do_POST_dispatch
    \/ do_POST_finish
    \/ shutdown_request

SpecLoop == Init /\ [][NextLoop]_vars

(* ---- copy_images_to_public.py ---- *)
\* line 21
IMAGE_EXTENSIONS ==
    {<<".", "p", "n", "g">>, <<".", "j", "p", "g">>, <<".", "j", "p", "e", "g">>,
     <<".", "g", "i", "f">>, <<".", "s", "v", "g">>, <<".", "w", "e", "b", "p">>,
     <<".", "i", "c", "o">>}

LowerChar(c) ==
    IF \E i \in 1..26 : UpperCase[i] = c
    THEN LowerCase[CHOOSE i \in 1..26 : UpperCase[i] = c]
    ELSE c
\* str.lower()
Lower(s) == [i \in 1..Len(s) |-> LowerChar(s[i])]

\* Path.suffix: the name from its last dot on, empty without a dot or when
\* the only dot is the first character
Suffix(p) ==
    LET dots == {i \in 2..Len(p) : p[i] = "."}
    IN IF dots = {} THEN <<>>
       ELSE SubSeq(p, CHOOSE i \in dots : \A j \in dots : j <= i, Len(p))

\* line 28: the test find_images applies to each file below source_dir
IsImage(dir, p) == dir[p].exists /\ Lower(Suffix(p)) \in IMAGE_EXTENSIONS

\* lines 24-30: the images below dir, in any order rglob may yield them
find_images(dir) ==
    LET found == {p \in Paths : IsImage(dir, p)}
    IN {q \in [1..Cardinality(found) -> found] :
          \A i, j \in 1..Len(q) : i # j => q[i] # q[j]}

\* contents of a file: up to MaxSize bytes
Bytes == {0, 1}
Contents == UNION {[1..n -> Bytes] : n \in 0..MaxSize}
ImageFiles == {NoFile} \cup {File(b) : b \in Contents}

\* lines 40-51: the trees the call is given; find_images; the early return
copy_images_start ==
    /\ copy_pc = "idle"
    /\ \E dr \in BOOLEAN, sa, sb, da, db \in ImageFiles :
         LET a == <<"a", ".", "p", "n", "g">>
             b == <<"b", ".", "J", "P", "G">>
             c == <<"c", ".", "t", "x", "t">>
             src == [p \in Paths |-> IF p = a THEN sa ELSE IF p = b THEN sb ELSE File(<<0>>)]
             dst == [p \in Paths |-> IF p = a THEN da ELSE IF p = b THEN db ELSE NoFile]
         IN /\ dry_run' = dr
            /\ source_dir' = src
            /\ dest_dir' = dst
            /\ \E found \in find_images(src) :
                 /\ images' = found
                 /\ copy_pc' = IF found = <<>> THEN "done" ELSE "loop"
    /\ copied' = 0
    /\ skipped' = 0
    /\ UNCHANGED copy_log
    /\ UNCHANGED besidesCopy

\* lines 53-73: one iteration of the for loop
copy_images_visit ==
    /\ copy_pc = "loop"
    /\ images # <<>>
    /\ LET img == Head(images)
       IN IF dest_dir[img].exists
             /\ Len(dest_dir[img].bytes) = Len(source_dir[img].bytes)
          THEN /\ copy_log' = Append(copy_log, <<"skip", img>>)
               /\ skipped' = skipped + 1
               /\ UNCHANGED <<copied, dest_dir>>
          ELSE IF dry_run
          THEN /\ copy_log' = Append(copy_log, <<"would copy", img>>)
               /\ copied' = copied + 1
               /\ UNCHANGED <<skipped, dest_dir>>
          ELSE /\ dest_dir' = [dest_dir EXCEPT ![img] = source_dir[img]]
               /\ copy_log' = Append(copy_log, <<"copied", img>>)
               /\ copied' = copied + 1
               /\ UNCHANGED skipped
    /\ images' = Tail(images)
    /\ UNCHANGED <<copy_pc, dry_run, source_dir>>
    /\ UNCHANGED besidesCopy

\* line 75
copy_images_return ==
    /\ copy_pc = "loop"
    /\ images = <<>>
    /\ copy_pc' = "done"
    /\ UNCHANGED <<dry_run, source_dir, dest_dir, images, copied, skipped, copy_log>>
    /\ UNCHANGED besidesCopy

NextCopy ==
    \/ copy_images_start
    \/ copy_images_visit
    \/ copy_images_return

SpecCopy == Init /\ [][NextCopy]_vars

(* ---- generate_image.py ---- *)
\* line 26
MAX_RETRIES == 3
\* line 27
RETRY_DELAY == 2

\* What one urlopen call can end with: a 2xx response whose body holds the
\* images or does not; an HTTPError with a status and an error body that is
\* a JSON object with an "error" object, not JSON, some other JSON, or not
\* UTF-8; a URLError; any other exception (a timeout while reading).
Outcome(kind, code, b) == [kind |-> kind, code |-> code, body |-> b]
HttpCodes == {400, 404, 429, 499, 500, 503}
ErrorBodies == {"error object", "not json", "other json", "not utf-8"}
Outcomes ==
    {Outcome("ok", 200, b) : b \in {"images", "malformed"}}
    \cup {Outcome("http", c, b) : c \in HttpCodes, b \in ErrorBodies}
    \cup {Outcome("urlerror", 0, ""), Outcome("exception", 0, "")}

\* lines 138 and 147, the delay always doubled from the same start
Delay_fixed(a) == RETRY_DELAY

\* lines 138 and 147
Delay(a) == RETRY_DELAY * (2 ^ a)

\* line 136, retrying on every client or server error
Retryable_anyError(code) == code >= 400

\* line 136
Retryable(code) == code = 429 \/ code >= 500

\* how the call ends: gen_pc is "done" and gen_result says how
Ends(how) ==
    /\ gen_pc' = "done"
    /\ gen_result' = how

\* lines 97-122: get_api_key exits when there is no key; the request is built
generate_image_start ==
    /\ gen_pc = "idle"
    /\ \E key_found \in BOOLEAN :
         IF key_found
         THEN gen_pc' = "for" /\ UNCHANGED gen_result
         ELSE Ends("exit1")
    /\ UNCHANGED <<attempt, outcomes, sleeps>>
    /\ UNCHANGED besidesGen

\* line 124, and lines 157-158 when range(MAX_RETRIES) is used up
for_attempt ==
    /\ gen_pc = "for"
    /\ IF attempt < MAX_RETRIES
       THEN gen_pc' = "try" /\ UNCHANGED gen_result
       ELSE Ends("max retries exceeded")
    /\ UNCHANGED <<attempt, outcomes, sleeps>>
    /\ UNCHANGED besidesGen

\* lines 125-155: one request and the except clause its outcome selects
urlopen ==
    /\ gen_pc = "try"
    /\ \E o \in Outcomes :
         /\ outcomes' = Append(outcomes, o)
         /\ CASE o.kind = "ok" ->
                   IF o.body = "images" THEN Ends("images") ELSE Ends("exit1")
              [] o.kind = "http" ->
                   IF o.body \in {"other json", "not utf-8"}
                   THEN Ends("traceback")
                   ELSE IF Retryable(o.code) /\ attempt < MAX_RETRIES - 1
                   THEN gen_pc' = "sleep" /\ UNCHANGED gen_result
                   ELSE Ends("exit1")
              [] o.kind = "urlerror" ->
                   IF attempt < MAX_RETRIES - 1
                   THEN gen_pc' = "sleep" /\ UNCHANGED gen_result
                   ELSE Ends("exit1")
              [] OTHER -> Ends("exit1")
    /\ UNCHANGED <<attempt, sleeps>>
    /\ UNCHANGED besidesGen

\* lines 138-141 and 147-150: time.sleep(delay), then continue
time_sleep ==
    /\ gen_pc = "sleep"
    /\ sleeps' = Append(sleeps, Delay(attempt))
    /\ attempt' = attempt + 1
    /\ gen_pc' = "for"
    /\ UNCHANGED <<outcomes, gen_result>>
    /\ UNCHANGED besidesGen

NextGen ==
    \/ generate_image_start
    \/ for_attempt
    \/ urlopen
    \/ time_sleep

\* every step of the call is taken: urlopen has a timeout and sleep returns
SpecGen == Init /\ [][NextGen]_vars /\ WF_vars(NextGen)

(* ---- whatsapp.py send ---- *)
\* a row of the chats table; name may be NULL
Chat(jid, name) == [jid |-> jid, name |-> name, name_null |-> FALSE]
ChatNoName(jid) == [jid |-> jid, name |-> <<>>, name_null |-> TRUE]

\* the rows a chats table is filled from, in rowid order
ChatPool ==
    << Chat(<<"a", "@", "s">>, <<"A", "a">>),
       ChatNoName(<<"b", "@", "s">>),
       Chat(<<"a", "b", "@", "g">>, <<"b">>),
       Chat(<<"a", "a", "@", "s">>, <<"a", "_">>),
       Chat(<<"b", "a", "@", "s">>, <<>>),
       Chat(<<"b", "b", "@", "g">>, <<"A">>) >>

RECURSIVE SelectPool(_, _)
\* the rows of ChatPool from index i on whose index is in keep
SelectPool(i, keep) ==
    IF i > Len(ChatPool) THEN <<>>
    ELSE (IF i \in keep THEN <<ChatPool[i]>> ELSE <<>>) \o SelectPool(i + 1, keep)

ChatTables == {SelectPool(1, keep) : keep \in SUBSET (1..Len(ChatPool))}

RecipientChars == {"a", "B", "@", "_"}
Recipients == UNION {[1..n -> RecipientChars] : n \in 0..MaxRecipientLen}

RECURSIVE Like(_, _)
\* SQLite's `text LIKE pat`: % matches any run of characters, _ any one
\* character, letters match without regard to case
Like(pat, text) ==
    IF pat = <<>> THEN text = <<>>
    ELSE IF Head(pat) = "%"
    THEN Like(Tail(pat), text) \/ (text # <<>> /\ Like(pat, Tail(text)))
    ELSE /\ text # <<>>
         /\ Head(pat) = "_" \/ LowerChar(Head(pat)) = LowerChar(Head(text))
         /\ Like(Tail(pat), Tail(text))

\* line 171
LIMIT == 5

RECURSIVE Where(_, _)
\* the rows of table, in order, that satisfy name LIKE pat OR jid LIKE pat
Where(table, pat) ==
    IF table = <<>> THEN <<>>
    ELSE (IF (~Head(table).name_null /\ Like(pat, Head(table).name))
             \/ Like(pat, Head(table).jid)
          THEN <<Head(table)>> ELSE <<>>) \o Where(Tail(table), pat)

\* lines 34-45 with the query of lines 168-172
query_db(pat) ==
    IF ~db_exists THEN <<>>
    ELSE Take(Where(chats, pat), LIMIT)

\* the request body handed to api_request, lines 189-192
SendRequest(to) == [endpoint |-> "/api/send", recipient |-> to]

\* lines 163-167: the arguments, and the message store the command finds
cmd_send_start ==
    /\ send_pc = "idle"
    /\ \E r \in Recipients, e \in BOOLEAN, t \in ChatTables :
         /\ args_recipient' = r
         /\ recipient' = r
         /\ db_exists' = e
         /\ chats' = t
         /\ send_pc' = IF \E i \in 1..Len(r) : r[i] = "@" THEN "request" ELSE "lookup"
    /\ UNCHANGED <<rows, lookups, sent>>
    /\ UNCHANGED besidesSend

\* lines 167-187 sending to the first row whatever the number of rows
cmd_send_lookup_firstRow ==
    /\ send_pc = "lookup"
    /\ LET found == query_db(<<"%">> \o recipient \o <<"%">>)
       IN /\ rows' = found
          /\ lookups' = lookups + 1
          /\ IF found = <<>>
             THEN send_pc' = "done" /\ UNCHANGED recipient
             ELSE send_pc' = "request" /\ recipient' = found[1].jid
    /\ UNCHANGED <<args_recipient, db_exists, chats, sent>>
    /\ UNCHANGED besidesSend

\* lines 167-187: the lookup of a recipient without "@"
cmd_send_lookup ==
    /\ send_pc = "lookup"
    /\ LET found == query_db(<<"%">> \o recipient \o <<"%">>)
       IN /\ rows' = found
          /\ lookups' = lookups + 1
          /\ IF found = <<>>
             THEN send_pc' = "done" /\ UNCHANGED recipient
             ELSE IF Len(found) > 1
             THEN send_pc' = "done" /\ UNCHANGED recipient
             ELSE send_pc' = "request" /\ recipient' = found[1].jid
    /\ UNCHANGED <<args_recipient, db_exists, chats, sent>>
    /\ UNCHANGED besidesSend

\* lines 189-197: the request to the bridge; its answer is only printed
api_request ==
    /\ send_pc = "request"
    /\ sent' = Append(sent, SendRequest(recipient))
    /\ send_pc' = "done"
    /\ UNCHANGED <<args_recipient, recipient, db_exists, chats, rows, lookups>>
    /\ UNCHANGED besidesSend

NextSend ==
    \/ cmd_send_start
    \/ cmd_send_lookup
    \/ api_request

SpecSend == Init /\ [][NextSend]_vars

(* ---- properties ---- *)
\* the value of key k in a result, Absent when the result has no such key
RECURSIVE Field(_, _)
Field(r, k) ==
    IF r = <<>> THEN Absent
    ELSE IF r[1][1] = k THEN r[1][2] ELSE Field(Tail(r), k)

\* the envelope (action, message, data) has been built
Parsed == action.t # "absent"
\* ... by the JSON branch, lines 50-57
JsonPath == Parsed /\ raw_message.t # "absent"
\* the envelope was handed to handle_action
Dispatched == handler # "none"
\* the request is over
Over == pc \in {"responded", "crashed"}

Blank(s) == \A i \in 1..Len(s) : s[i] \in Whitespace

\* m is t without its leading and trailing whitespace
IsStripOf(m, t) ==
    /\ m # <<>> => (m[1] \notin Whitespace /\ m[Len(m)] \notin Whitespace)
    /\ \E i \in 0..Len(t), j \in 0..Len(t) :
         /\ i + Len(m) + j = Len(t)
         /\ Blank(SubSeq(t, 1, i))
         /\ SubSeq(t, i + 1, i + Len(m)) = m
         /\ Blank(SubSeq(t, i + Len(m) + 1, Len(t)))

\* C1: every POST request ends with an HTTP 200 application/json response
\* whose body is the handler's result, and no exception leaves do_POST.
C1_AlwaysResponds ==
    /\ pc # "crashed"
    /\ exc = "none"
    /\ pc = "responded" =>
         /\ response.status = 200
         /\ response.content_type = "application/json"
         /\ response.body = JsonResult(result)

\* C2: every request that is over was dispatched to exactly one handler of
\* the registry, and to action_notify when its action is missing or is not
\* a key of the registry, with the result action_notify gives.
C2_EveryRequestDispatched ==
    Over =>
      /\ handler \in {"action_notify", "action_sound", "action_say",
                      "action_log", "action_execute"}
      /\ (data.t # "dict" \/ data.o["action"].t # "str"
          \/ data.o["action"].s \notin {S_notify, S_notification, S_sound,
                                        S_say, S_log, S_execute})
           => /\ handler = "action_notify"
              /\ pc = "responded" => Field(result, "action") \in {Absent, Str(S_notify)}

\* C3: action_execute starts a process only for a non-empty command with an
\* allowed prefix; an empty or absent command gives "No command provided",
\* every other command without an allowed prefix gives "Command not
\* allowed", and neither starts a process.
C3_ExecuteAllowList ==
    handler = "action_execute" =>
      LET command == data.o["command"]
          empty == command.t = "absent" \/ ~TruthyVal(command)
          matching ==
            /\ command.t = "str"
            /\ \/ StartsWith(command.s, <<"o", "p", "e", "n", " ">>)
               \/ StartsWith(command.s, <<"s", "a", "y", " ">>)
               \/ StartsWith(command.s, <<"a", "f", "p", "l", "a", "y", " ">>)
               \/ StartsWith(command.s, <<"o", "s", "a", "s", "c", "r", "i", "p", "t", " ">>)
      IN /\ spawned # <<>> => (~empty /\ matching)
         /\ empty =>
              /\ result = <<<<"success", Bool(FALSE)>>, <<"error", Str(S_NoCommandProvided)>>>>
              /\ spawned = <<>>
         /\ (~empty /\ ~matching) =>
              /\ result = <<<<"success", Bool(FALSE)>>, <<"error", Str(S_CommandNotAllowed)>>>>
              /\ spawned = <<>>

\* C4: the envelope handed to handle_action has a string action, a string
\* message and a mapping data.
C4_EnvelopeTypes ==
    (pc = "logged" \/ Dispatched) =>
      /\ action.t = "str"
      /\ message.t = "str"
      /\ data.t = "dict"

\* the data of the plain-text branch for message m
PlainData(m) ==
    Obj([k \in TopKeys |->
           IF k = "title" THEN Val(Str(S_EmailAIAnalysis))
           ELSE IF k = "message" THEN Val(m) ELSE AbsentVal])

\* C5 (as claimed): every non-empty body that is not valid JSON, a body of
\* only whitespace included, gives the envelope action "notify",
\* message = body.strip(), data = {title: "Email AI Analysis", message}.
C5_Original ==
    (Parsed /\ body.kind = "text" /\ body.text # <<>> /\ ~IsJsonText(body.text)) =>
      /\ action = Str(S_notify)
      /\ message.t = "str" /\ IsStripOf(message.s, body.text)
      /\ data = PlainData(message)

\* C5 (amended): a body that is not valid JSON and has a character that is
\* not whitespace gives the envelope action "notify", message =
\* body.strip(), data = {title: "Email AI Analysis", message}; a body of only
\* whitespace gives the defaults of the JSON branch: action "notify",
\* message "Webhook received", data = {}.
C5_PlainTextEnvelope ==
    (Parsed /\ body.kind = "text" /\ body.text # <<>> /\ ~IsJsonText(body.text)) =>
      IF ~Blank(body.text)
      THEN /\ action = Str(S_notify)
           /\ message.t = "str" /\ IsStripOf(message.s, body.text)
           /\ data = PlainData(message)
      ELSE /\ action = Str(S_notify)
           /\ message = Str(S_WebhookReceived)
           /\ data = Obj(EmptyObj)

\* a plain-text body with whitespace around its text was answered
C5_Witness ==
    /\ pc = "responded"
    /\ body.kind = "text" /\ ~IsJsonText(body.text)
    /\ body.text # <<>> /\ body.text[1] \in Whitespace /\ ~Blank(body.text)
    /\ message.s # body.text

\* C6 (as claimed): an empty body is a JSON-parse failure and takes the
\* plain-text branch: message = body.strip(), title "Email AI Analysis".
C6_Original ==
    (Parsed /\ body = TextBody(<<>>)) =>
      /\ ~is_json
      /\ message = Str(<<>>)
      /\ data = PlainData(message)

\* the osascript script of a notification
ScriptOf(m, title, sound) ==
    S_displayNotification \o m \o S_withTitle \o title \o S_soundName \o sound \o <<"\"">>

\* C6 (amended): an empty body is not parsed: it counts as the JSON object
\* {} and takes the JSON branch with its defaults, action "notify", message
\* "Webhook received", data = {}, so the notification has the title
\* "ActivePieces".
C6_EmptyBodyJsonDefaults ==
    (Parsed /\ body = TextBody(<<>>)) =>
      /\ is_json
      /\ action = Str(S_notify)
      /\ message = Str(S_WebhookReceived)
      /\ data = Obj(EmptyObj)
      /\ Dispatched => handler = "action_notify"
      /\ spawned # <<>> =>
           spawned[1].argv[3] = ScriptOf(S_WebhookReceived, S_ActivePieces, S_Glass)

\* an empty body was answered after its notification was shown
C6_Witness ==
    /\ pc = "responded"
    /\ body = TextBody(<<>>)
    /\ Len(spawned) = 1
    /\ Field(result, "success") = Bool(TRUE)

\* C7: on the JSON branch the selected value is that of the first key
\* present among message, text, raw, also when a later key is present and
\* when the value is empty or null; it is "Webhook received" when none of
\* the three is present; a selected non-blank string is the message.
C7_FirstPresentKey ==
    JsonPath =>
      LET o == data.o
          has(k) == o[k].t # "absent"
      IN /\ has("message") => raw_message = o["message"]
         /\ (~has("message") /\ has("text")) => raw_message = o["text"]
         /\ (~has("message") /\ ~has("text") /\ has("raw")) => raw_message = o["raw"]
         /\ (~has("message") /\ ~has("text") /\ ~has("raw")) =>
              /\ raw_message = Val(Str(S_WebhookReceived))
              /\ message = Str(S_WebhookReceived)
         /\ (raw_message.t = "str" /\ ~Blank(raw_message.s)) =>
              message = Str(raw_message.s)

\* a null message won over a text that is also present
C7_Witness ==
    /\ pc = "responded"
    /\ data.o["message"].t = "null"
    /\ data.o["text"].t = "str" /\ data.o["text"].s # <<>>
    /\ raw_message.t = "null"

\* the message extracted from a mapping d: its first key present among
\* result, text, content, else its JSON text
NestedMessageIs(m, d) ==
    LET has(k) == d[k].t # "absent"
    IN /\ has("result") => m = d["result"]
       /\ (~has("result") /\ has("text")) => m = d["text"]
       /\ (~has("result") /\ ~has("text") /\ has("content")) => m = d["content"]
       /\ (~has("result") /\ ~has("text") /\ ~has("content")) =>
            m = Str(IF has("other")
                    THEN <<"{", "\"", "o", "t", "h", "e", "r", "\"", ":", " ">>
                         \o Digits(d["other"].n) \o <<"}">>
                    ELSE <<"{", "}">>)

\* C8 (as claimed): a selected mapping gives its first key present among
\* result, text, content (else its JSON text), a selected blank string gives
\* "No message content", and no request of the JSON branch is dispatched
\* with an empty or blank message.
C8_Original ==
    JsonPath =>
      /\ raw_message.t = "dict" => NestedMessageIs(message, raw_message.d)
      /\ (raw_message.t = "str" /\ Blank(raw_message.s)) =>
           message = Str(S_NoMessageContent)
      /\ Dispatched => ~(message.t = "str" /\ Blank(message.s))

\* C8 (amended): a selected mapping gives its first key present among
\* result, text, content (else its JSON text), a selected blank string gives
\* "No message content", and no request of the JSON branch whose selected
\* value is not a mapping is dispatched with an empty or blank message.
C8_NestedAndBlank ==
    JsonPath =>
      /\ raw_message.t = "dict" => NestedMessageIs(message, raw_message.d)
      /\ (raw_message.t = "str" /\ Blank(raw_message.s)) =>
           message = Str(S_NoMessageContent)
      /\ (Dispatched /\ raw_message.t # "dict") =>
           (message.t = "str" /\ ~Blank(message.s))

\* a blank string selected at top level was replaced and answered
C8_Witness ==
    /\ pc = "responded"
    /\ raw_message.t = "str" /\ raw_message.s # <<>> /\ Blank(raw_message.s)
    /\ message = Str(S_NoMessageContent)

HandlerName ==
    [h \in {"action_notify", "action_sound", "action_say", "action_log",
            "action_execute"} |->
        CASE h = "action_notify" -> <<"n", "o", "t", "i", "f", "y">>
          [] h = "action_sound" -> <<"s", "o", "u", "n", "d">>
          [] h = "action_say" -> <<"s", "a", "y">>
          [] h = "action_log" -> <<"l", "o", "g">>
          [] OTHER -> <<"e", "x", "e", "c", "u", "t", "e">>]

\* C9 (as claimed): every result has a boolean success and a string action
\* that names the action, and the response body is its serialization.
C9_Original ==
    pc \in {"handled", "responded"} =>
      /\ Field(result, "success").t = "bool"
      /\ Field(result, "action") = Str(HandlerName[handler])
      /\ pc = "responded" => response.body = JsonResult(result)

\* the handler ended on a failure path: notify or say with a non-zero exit,
\* execute without a command, with a command that is not allowed, with a
\* timeout, with a process that could not be started or with output that
\* could not be decoded
FailurePath ==
    \/ handler \in {"action_notify", "action_say"} /\ spawned[1].outcome = "nonzero"
    \/ /\ handler = "action_execute"
       /\ \/ spawned = <<>>
          \/ spawned[1].outcome = "timeout"
          \/ ~spawned[1].decoded

\* C9 (amended): every result has a boolean success; on a failure path it
\* has success false, a string error and no action; otherwise it has a
\* string action that names the handler and no error; the response body is
\* its serialization.
C9_ResultShape ==
    pc \in {"handled", "responded"} =>
      /\ Field(result, "success").t = "bool"
      /\ IF FailurePath
         THEN /\ Field(result, "success") = Bool(FALSE)
              /\ Field(result, "error").t = "str"
              /\ Field(result, "action") = Absent
         ELSE /\ Field(result, "action") = Str(HandlerName[handler])
              /\ Field(result, "error") = Absent
      /\ pc = "responded" =>
           /\ response.status = 200
           /\ response.body = JsonResult(result)

\* a timed-out command was answered with an error and no action
C9_Witness ==
    /\ pc = "responded"
    /\ handler = "action_execute"
    /\ Len(spawned) = 1 /\ spawned[1].outcome = "timeout"
    /\ Field(result, "action") = Absent

\* C10: for notify and say, a non-zero exit of the tool gives
\* {success: false, error: <text>} in a response of status 200, and exit 0
\* gives success true with the message as it was before sanitizing.
C10_NotifySayOutcome ==
    (handler \in {"action_notify", "action_say"} /\ pc \in {"handled", "responded"}) =>
      /\ Len(spawned) = 1
      /\ spawned[1].outcome \in {"exit0", "nonzero"}
      /\ spawned[1].outcome = "nonzero" =>
           /\ Len(result) = 2
           /\ result[1] = <<"success", Bool(FALSE)>>
           /\ result[2][1] = "error" /\ result[2][2].t = "str"
           /\ pc = "responded" => response.status = 200
      /\ spawned[1].outcome = "exit0" =>
           /\ Field(result, "success") = Bool(TRUE)
           /\ Field(result, "message") = message
           /\ (raw_message.t = "str" /\ ~Blank(raw_message.s)) =>
                Field(result, "message") = Str(raw_message.s)
           /\ raw_message.t = "absent" =>
                IsStripOf(Field(result, "message").s, body.text)

\* say succeeded on a message with a double quote: the tool got the
\* sanitized text, the result has the original
C10_Witness ==
    /\ pc = "responded"
    /\ handler = "action_say"
    /\ spawned[1].outcome = "exit0"
    /\ \E i \in 1..Len(message.s) : message.s[i] = "\""
    /\ spawned[1].argv[4] # message.s
    /\ Field(result, "message") = message

\* C11: for an allowed command the result follows the outcome of the
\* process: exit 0 gives success true and a non-zero exit success false,
\* both with stdout and stderr; a timeout gives "Command timed out" and the
\* process is killed; a process that finished never gives the timeout result.
C11_ExecuteOutcome ==
    (handler = "action_execute" /\ spawned # <<>>) =>
      LET p == spawned[1]
          timed_out == <<<<"success", Bool(FALSE)>>, <<"error", Str(S_CommandTimedOut)>>>>
      IN /\ pc # "crashed"
         /\ p.outcome \in {"exit0", "nonzero"} =>
              /\ Field(result, "success") = Bool(p.outcome = "exit0")
              /\ Field(result, "stdout").t = "str"
              /\ Field(result, "stderr").t = "str"
              /\ ~p.killed
         /\ p.outcome = "timeout" => (result = timed_out /\ p.killed)
         /\ result = timed_out => p.outcome = "timeout"

\* C12: the sound action always returns success true with action "sound";
\* the secondary tool (afplay) runs exactly once when the primary one
\* (osascript) failed, whatever its outcome, and never when it succeeded.
C12_SoundAlwaysSucceeds ==
    handler = "action_sound" =>
      /\ pc # "crashed"
      /\ Field(result, "success") = Bool(TRUE)
      /\ Field(result, "action") = Str(S_sound)
      /\ spawned # <<>>
      /\ spawned[1].argv[1] = S_osascriptTool
      /\ spawned[1].outcome = "exit0" => Len(spawned) = 1
      /\ spawned[1].outcome # "exit0" =>
           /\ Len(spawned) = 2
           /\ spawned[2].argv[1] = S_afplayTool

\* the request body {"action":"log","message":"a"}
LogRequest ==
    JsonBody(Obj([EmptyObj EXCEPT !["action"] = Val(Str(S_log)),
                                  !["message"] = Val(Str(<<"a">>))]))

\* the text of {"success": true, "action": "log", "message": "a"}
LogResponseText ==
    <<"{", "\"", "s", "u", "c", "c", "e", "s", "s", "\"", ":", " ", "t", "r", "u", "e", ",", " ", "\"", "a", "c", "t", "i", "o", "n", "\"", ":", " ", "\"", "l", "o", "g", "\"", ",", " ", "\"", "m", "e", "s", "s", "a", "g", "e", "\"", ":", " ", "\"", "a", "\"", "}">>

\* C13: a request with body {"action":"log","message":"a"}, whatever was
\* served before it, is answered with {success:true, action:"log",
\* message:"a"}, starts no process and never fails; when the listener waits
\* for the next request nothing of the served ones is retained.
C13_LogIdempotent ==
    /\ (body = LogRequest /\ pc # "listening") =>
         /\ pc # "crashed"
         /\ spawned = <<>>
         /\ handler \in {"none", "action_log"}
    /\ (body = LogRequest /\ pc \in {"handled", "responded"}) =>
         result = <<<<"success", Bool(TRUE)>>, <<"action", Str(S_log)>>,
                    <<"message", Str(<<"a">>)>>>>
    /\ (body = LogRequest /\ pc = "responded") =>
         /\ response.status = 200
         /\ response.body = LogResponseText
    /\ pc = "listening" =>
         /\ data = NoDoc /\ message = Absent /\ action = Absent
         /\ handler = "none" /\ result = <<>> /\ spawned = <<>>
         /\ exc = "none" /\ response = NoResponse

\* the log request has been answered
C13_Witness ==
    /\ body = LogRequest
    /\ pc = "responded"
    /\ handler = "action_log"
    /\ response.body = LogResponseText
    /\ Len(printed) = 2

\* the listener handles one connection at a time: at most one connection is
\* between accept and shutdown, so at most one handler runs
Serialized ==
    /\ Cardinality(InFlight) <= 1
    /\ Cardinality({c \in Conns : conn[c] = "running"}) <= 1

\* C14: one request at a time: no two handlers run together, no connection
\* is accepted or dispatched while another one is being served, and the
\* response of every request was written before the next connection was
\* accepted.
C14_OneRequestAtATime ==
    /\ Serialized
    /\ \A i \in 1..(Len(accepted) - 1) : accepted[i] \in written

\* C15: an image is skipped only when the destination file is identical to
\* the source file, and after a run that is not a dry run every image of
\* the source tree has an identical file in the destination tree.
C15_SkipOnlyIdentical ==
    /\ \A i \in 1..Len(copy_log) :
         copy_log[i][1] = "skip" =>
           dest_dir[copy_log[i][2]] = source_dir[copy_log[i][2]]
    /\ (copy_pc = "done" /\ ~dry_run) =>
         \A p \in Paths : IsImage(source_dir, p) => dest_dir[p] = source_dir[p]

\* exit status of the process for each way the call can end
ExitStatus(how) == IF how = "images" THEN 0 ELSE 1

C16_Safety ==
    /\ Len(outcomes) <= 3
    /\ Len(sleeps) <= 2
    /\ \A i \in 1..Len(sleeps) : sleeps[i] = (IF i = 1 THEN 2 ELSE 4)
    /\ gen_pc = "try" => Len(sleeps) = Len(outcomes)
    /\ gen_pc = "done" => Len(sleeps) = Len(outcomes) - (IF outcomes = <<>> THEN 0 ELSE 1)
    /\ gen_result # "max retries exceeded"
    /\ gen_pc = "done" =>
         /\ gen_result \in {"images", "exit1", "traceback"}
         /\ gen_result = "images" <=>
              (outcomes # <<>> /\ outcomes[Len(outcomes)] = Outcome("ok", 200, "images"))
         /\ \A i \in 1..(Len(outcomes) - 1) : outcomes[i].kind # "ok"

\* C16: generate_image sends at most 3 requests and always ends, returning
\* the images of the first successful response or leaving with exit status
\* 1; it sleeps 2 seconds before the second request and 4 before the third,
\* and never ends with "Max retries exceeded".
C16_BoundedRetries == []C16_Safety /\ <>(gen_pc = "done")

\* three requests were made, with both waits
C16_Witness ==
    /\ gen_pc = "done"
    /\ Len(outcomes) = 3
    /\ sleeps = <<2, 4>>
    /\ ExitStatus(gen_result) = 1

\* the outcomes after which line 136 or 146 may retry
MayRetry(o) ==
    \/ o.kind = "http" /\ (o.code = 429 \/ o.code >= 500)
    \/ o.kind = "urlerror"

\* C17: a request is followed by another one only if it was the first or
\* second and ended with HTTP 429, a status >= 500 or a URLError; any other
\* error ends the call at once with exit status 1, and a successful
\* response ends it as well.
C17_RetryOnlyTransient ==
    \A i \in 1..Len(outcomes) :
      /\ i < Len(outcomes) => (MayRetry(outcomes[i]) /\ i <= 2)
      /\ ~MayRetry(outcomes[i]) =>
           /\ i = Len(outcomes)
           /\ gen_pc = "done"
           /\ outcomes[i].kind # "ok" => ExitStatus(gen_result) = 1

\* a client error on the second attempt, after a retried network error
C17_Witness ==
    /\ Len(outcomes) = 2
    /\ outcomes[1].kind = "urlerror"
    /\ outcomes[2] = Outcome("http", 404, "not json")
    /\ gen_pc = "done"
    /\ gen_result = "exit1"

\* the argument of send holds an "@"
LooksLikeJid == \E i \in 1..Len(args_recipient) : args_recipient[i] = "@"

\* text holds part, letters compared without regard to case
Contains(text, part) ==
    \E i \in 0..(Len(text) - Len(part)) :
       \A j \in 1..Len(part) : LowerChar(text[i + j]) = LowerChar(part[j])

\* the chats whose name or jid holds the argument (for an argument without
\* the wildcard _)
Matching ==
    {i \in 1..Len(chats) :
        \/ ~chats[i].name_null /\ Contains(chats[i].name, args_recipient)
        \/ Contains(chats[i].jid, args_recipient)}

\* C18: without "@" in the recipient a request goes to the bridge only when
\* the lookup returned exactly one row, and it is addressed to that row's
\* jid; with no row or several rows nothing is sent. With "@" the recipient
\* is forwarded as given and no lookup is made.
C18_SendOnlyUniqueMatch ==
    /\ Len(sent) <= 1
    /\ ~LooksLikeJid =>
         /\ sent # <<>> =>
              /\ lookups = 1
              /\ Len(rows) = 1
              /\ sent[1] = [endpoint |-> "/api/send", recipient |-> rows[1].jid]
         /\ (send_pc = "done" /\ Len(rows) = 1) => sent # <<>>
         /\ (send_pc \in {"request", "done"}
             /\ \A i \in 1..Len(args_recipient) : args_recipient[i] # "_") =>
              /\ Len(rows) = (IF ~db_exists THEN 0
                              ELSE IF Cardinality(Matching) > 5 THEN 5
                              ELSE Cardinality(Matching))
              /\ Len(rows) = 1 => rows[1] = chats[CHOOSE i \in Matching : TRUE]
    /\ LooksLikeJid =>
         /\ lookups = 0
         /\ send_pc = "done" =>
              sent = <<[endpoint |-> "/api/send", recipient |-> args_recipient]>>

\* a name was resolved among several chats and the message went to its jid
C18_Witness ==
    /\ ~LooksLikeJid
    /\ send_pc = "done"
    /\ Len(chats) >= 3
    /\ Len(sent) = 1
    /\ sent[1].recipient = rows[1].jid
    /\ sent[1].recipient # args_recipient

====
